---- MODULE Spec2Model ----
(***************************************************************************)
(* Control_DA_components.ipynb: the Lorenz 96 data-assimilation practical.  *)
(* The notebook is a straight-line script; every statement is one step of   *)
(* the state machine, and the code cells are run top to bottom.             *)
(*                                                                          *)
(* Reals are fixed point: a state value v is stored as v*Scale, a time as   *)
(* a whole number of 1e-4 time units.  Arrays are 1-based sequences: the    *)
(* trajectory xtrue is a sequence of columns, xtrue[k][i] being Python's    *)
(* xtrue[i-1, k-1].                                                         *)
(***************************************************************************)
EXTENDS Integers, Sequences, FiniteSets, TLC

\* ------------------------------------------------------------------ bounds
\* The notebook's sizes (n = 12, tf = 200 steps, discard = 150, n_sample = 5000,
\* lin_t = 100 steps, sample_size = 10000) are the values the reader is asked to
\* vary; the statements that set them draw them from these ranges.
Scale == 100            \* fixed-point resolution of a state value
MaxHalfN == 5           \* n is 2*(MaxHalfN-1) or 2*MaxHalfN
MaxTfSteps == 4         \* tf ranges over MaxTfSteps-2 .. MaxTfSteps model time steps
MaxDiscard == 30        \* discard ranges over MaxDiscard-1 .. MaxDiscard
MaxNSample == 1         \* n_sample is MaxNSample
MaxLinSteps == 2        \* lin_t is MaxLinSteps-1 or MaxLinSteps model time steps
MaxSampleSize == 6      \* sample_size is MaxSampleSize-1 or MaxSampleSize
MaxPeriodObs == 3       \* period_obs ranges over 1 .. MaxPeriodObs

\* ------------------------------------------------------- program constants
DELTAT == 250           \* deltat = 0.025, in 1e-4 time units
LAG_T == 1000           \* the 0.1 of lag = int(0.1/deltat), in 1e-4 time units
TF_VALUE == 50000       \* tf = 5.0, in 1e-4 time units
F_VALUE == 8            \* F = 8.0
X0_VALUE == 10          \* np.repeat(10.0, n)
VAR_OBS == 2            \* var_obs = 2
SEED == 1               \* seed = 1
FOOTPRINT == 3          \* footprint = 3
VAR1D == 5              \* var1D = 5
TimeUnit == 10 * 1000   \* 1e-4 time units in one time unit

\* ------------------------------------------------------------ array helpers
Cols(X) == Len(X)

Min(a, b) == IF a < b THEN a ELSE b

Abs(a) == IF a < 0 THEN -a ELSE a

\* index i wrapped onto the circle 1..m
Wrap(i, m) == ((i - 1) % m) + 1

\* the array f with every entry computed: TLC keeps a function constructor
\* unevaluated, and would compute an entry again at each use
Array(f) == f \o <<>>

VecAdd(u, v) == Array([i \in 1..Len(u) |-> u[i] + v[i]])

VecSub(u, v) == Array([i \in 1..Len(u) |-> u[i] - v[i]])

\* u + (a/b)*v
VecAxpy(u, a, b, v) == Array([i \in 1..Len(u) |-> u[i] + (a * v[i]) \div b])

RECURSIVE SumTo(_, _)
SumTo(f, k) == IF k = 0 THEN 0 ELSE f[k] + SumTo(f, k - 1)

\* sum of the entries of a sequence
Sum(f) == SumTo(f, Len(f))

RECURSIVE ISqrtIn(_, _, _)
\* the largest r in lo..hi with r*r <= a, by bisection
ISqrtIn(a, lo, hi) ==
    IF lo >= hi THEN lo
    ELSE LET mid == (lo + hi + 1) \div 2
         IN  IF mid * mid <= a THEN ISqrtIn(a, mid, hi) ELSE ISqrtIn(a, lo, mid - 1)

\* floor of the square root
ISqrt(a) == ISqrtIn(a, 0, Min(a, 4 * TimeUnit))

\* ------------------------------------------------------------ numpy, Python
\* np.arange(start, stop, step): start + i*step for i < ceil((stop-start)/step)
arange(start, stop, step) ==
    [i \in 1..((stop - start + step - 1) \div step) |-> start + (i - 1) * step]

\* int(a/b) for a, b > 0
PyInt(a, b) == a \div b

\* np.repeat(v, m)
repeat(v, m) == [i \in 1..m |-> v]

\* ------------------------------------------------------------ tools.L96_model
\* dx_i/dt = (x_{i+1} - x_{i-2}) x_{i-1} - x_i + F
l96_rhs(x, Fv) ==
    LET m == Len(x)
    IN  Array([i \in 1..m |->
            ((x[Wrap(i + 1, m)] - x[Wrap(i - 2, m)]) * x[Wrap(i - 1, m)]) \div Scale
            - x[i] + Fv * Scale])

\* one Runge-Kutta step of length dt (1e-4 time units)
rk4_step(x, dt, Fv) ==
    LET k1 == l96_rhs(x, Fv)
        k2 == l96_rhs(VecAxpy(x, dt, 2 * TimeUnit, k1), Fv)
        k3 == l96_rhs(VecAxpy(x, dt, 2 * TimeUnit, k2), Fv)
        k4 == l96_rhs(VecAxpy(x, dt, TimeUnit, k3), Fv)
    IN  Array([i \in 1..Len(x) |->
            x[i] + (dt * (k1[i] + 2 * k2[i] + 2 * k3[i] + k4[i])) \div (6 * TimeUnit)])

RECURSIVE l96_advance(_, _, _, _)
\* the state after k steps (the next state is bound through a singleton set, so
\* that it is computed once, before the remaining steps)
l96_advance(x, k, dt, Fv) ==
    IF k = 0 THEN x
    ELSE CHOOSE r \in {l96_advance(z, k - 1, dt, Fv) : z \in {rk4_step(x, dt, Fv)}} : TRUE

RECURSIVE l96_traj(_, _, _, _)
\* the states at steps 0..k
l96_traj(x, k, dt, Fv) ==
    IF k = 0 THEN <<x>>
    ELSE CHOOSE r \in {<<x>> \o l96_traj(z, k - 1, dt, Fv) : z \in {rk4_step(x, dt, Fv)}} :
            TRUE

\* lorenz96(x0, tf, deltat, discard, F): spin up for discard steps, then output
\* the state at every step from 0 to tf
lorenz96(x0v, tfv, dt, disc, Fv) ==
    l96_traj(l96_advance(x0v, disc, dt, Fv), PyInt(tfv, dt), dt, Fv)

\* ------------------------------------------------------------ tools.diag
\* the Jacobian of l96_rhs at x applied to the increment d
l96_tl_rhs(x, d) ==
    LET m == Len(x)
    IN  Array([i \in 1..m |->
            ((d[Wrap(i + 1, m)] - d[Wrap(i - 2, m)]) * x[Wrap(i - 1, m)]
             + (x[Wrap(i + 1, m)] - x[Wrap(i - 2, m)]) * d[Wrap(i - 1, m)]) \div Scale
            - d[i]])

\* the tangent linear of rk4_step at x applied to the increment d
rk4_tl_step(x, d, dt, Fv) ==
    LET k1 == l96_rhs(x, Fv)
        x2 == VecAxpy(x, dt, 2 * TimeUnit, k1)
        k2 == l96_rhs(x2, Fv)
        x3 == VecAxpy(x, dt, 2 * TimeUnit, k2)
        k3 == l96_rhs(x3, Fv)
        x4 == VecAxpy(x, dt, TimeUnit, k3)
        d1 == l96_tl_rhs(x, d)
        d2 == l96_tl_rhs(x2, VecAxpy(d, dt, 2 * TimeUnit, d1))
        d3 == l96_tl_rhs(x3, VecAxpy(d, dt, 2 * TimeUnit, d2))
        d4 == l96_tl_rhs(x4, VecAxpy(d, dt, TimeUnit, d3))
    IN  Array([i \in 1..Len(x) |->
            d[i] + (dt * (d1[i] + 2 * d2[i] + 2 * d3[i] + d4[i])) \div (6 * TimeUnit)])

RECURSIVE tl_traj(_, _, _, _, _)
\* TL(d, t) along the trajectory from x, at steps 0..k
tl_traj(x, d, k, dt, Fv) ==
    IF k = 0 THEN <<d>>
    ELSE <<d>> \o tl_traj(rk4_step(x, dt, Fv), rk4_tl_step(x, d, dt, Fv), k - 1, dt, Fv)

\* the L2 norm
norm2(v) == ISqrt(Sum([i \in 1..Len(v) |-> v[i] * v[i]]))

\* compute_lin_error(Delta_x, x, F, lin_t, deltat)
compute_lin_error(Dx, x, Fv, lint, dt) ==
    LET k    == PyInt(lint, dt)
        nl1  == l96_traj(VecAdd(x, Dx), k, dt, Fv)
        nl0  == l96_traj(x, k, dt, Fv)
        nld  == Array([j \in 1..(k + 1) |-> VecSub(nl1[j], nl0[j])])
        tld  == tl_traj(x, Dx, k, dt, Fv)
    IN  [lin_error |-> Array([j \in 1..(k + 1) |-> norm2(VecSub(nld[j], tld[j]))]),
         NLdiff |-> nld,
         TLdiff |-> tld]

\* ------------------------------------------------------------ tools.cov
\* the start columns of the lagged pairs: one sample per model time step, as many
\* as sample_size asks for and the run holds
sample_starts(cols, lagv, ssize) == 1..Min(ssize, cols - lagv)

\* epsilon = (x(t+T) - x(t))/sqrt(2) for the pair starting at column k
lagged_diff(X, k, lagv) ==
    Array([i \in 1..Len(X[k]) |->
        ((X[k + lagv][i] - X[k][i]) * Scale) \div ISqrt(2 * Scale * Scale)])

\* np.cov of the samples E (a sequence of vectors)
cov(E) ==
    LET m    == Len(E)
        nv   == Len(E[1])
        mean == Array([i \in 1..nv |-> Sum([k \in 1..m |-> E[k][i]]) \div m])
    IN  Array([i \in 1..nv |-> Array([j \in 1..nv |->
            (Sum([k \in 1..m |-> (E[k][i] - mean[i]) * (E[k][j] - mean[j])]) \div (m - 1))
            \div Scale])])

\* the value standing for a NaN entry
NaN == -(2 * TimeUnit * TimeUnit)

\* np.corrcoef, from the covariance
corrcoef(Bm) ==
    [i \in 1..Len(Bm) |-> [j \in 1..Len(Bm) |->
        IF Bm[i][i] * Bm[j][j] <= 0 THEN NaN
        ELSE (Bm[i][j] * Scale) \div ISqrt(Bm[i][i] * Bm[j][j])]]

\* the lagged differences getBcanadian takes the covariance of
lagged_sample(X, lagv, ssize) ==
    Array([k \in sample_starts(Cols(X), lagv, ssize) |-> lagged_diff(X, k, lagv)])

\* getBcanadian(xB, lag, max_var, sample_size), max_var = None
getBcanadian(X, lagv, ssize) ==
    LET E  == lagged_sample(X, lagv, ssize)
        Bm == cov(E)
    IN  [x_sample |-> E, B |-> Bm, Bcorr |-> corrcoef(Bm)]

\* ------------------------------------------------------------ tools.obs
ObsGrids == {"all", "1010", "landsea", "foot_cent", "foot_6"}

\* the row of H observing variable v directly
unit_row(v, nv) == [i \in 1..nv |-> IF i = v THEN Scale ELSE 0]

\* distance between grid points i and c on the circle of nv points
circ_dist(i, c, nv) == Min(Abs(i - c) % nv, nv - (Abs(i - c) % nv))

\* the truncated Gaussian weight of a grid point d points from the centre
gauss_weight(d) == CASE d = 0 -> 100 [] d = 1 -> 61 [] d = 2 -> 14 [] OTHER -> 1

\* the row of H averaging fp grid points around the centre c
foot_row(c, nv, fp) ==
    LET w   == Array([i \in 1..nv |->
                  IF circ_dist(i, c, nv) <= (fp - 1) \div 2
                  THEN gauss_weight(circ_dist(i, c, nv)) ELSE 0])
        tot == Sum(w)
    IN  Array([i \in 1..nv |-> (w[i] * Scale) \div tot])

RECURSIVE pick_rows(_, _, _)
\* the unit rows of the variables k..nv that keep(v) selects, in order
pick_rows(k, nv, keep) ==
    IF k > nv THEN <<>>
    ELSE (IF keep[k] THEN <<unit_row(k, nv)>> ELSE <<>>) \o pick_rows(k + 1, nv, keep)

\* createH(obsgrid, n, footprint)
createH(grid, nv, fp) ==
    LET Hm == CASE grid = "all"       -> pick_rows(1, nv, [v \in 1..nv |-> TRUE])
                [] grid = "1010"      -> pick_rows(1, nv, [v \in 1..nv |-> v % 2 = 1])
                [] grid = "landsea"   -> pick_rows(1, nv, [v \in 1..nv |-> v <= nv \div 2])
                [] grid = "foot_cent" -> <<foot_row(nv \div 2 + 1, nv, fp)>>
                [] grid = "foot_6"    ->
                       [j \in 1..6 |-> foot_row(((j - 1) * nv) \div 6 + 1, nv, fp)]
    IN  [p |-> Len(Hm), H |-> Hm]

\* H applied to the state x
apply_H(Hm, x) ==
    Array([r \in 1..Len(Hm) |-> Sum([i \in 1..Len(x) |-> Hm[r][i] * x[i]]) \div Scale])

\* the seeded pseudo-random observation error of entry r at observation k
obs_error(seedv, varv, r, k) ==
    (((seedv * 7 + r * 3 + k * 5) % 3) - 1) * ISqrt(varv * Scale * Scale)

\* the columns of the model time array at which observations are taken
obs_columns(cols, period) == [k \in 1..((cols - 1) \div period + 1) |-> (k - 1) * period + 1]

\* gen_obs(t, xtrue, period_obs, H, var_obs, seed)
gen_obs(tv, X, period, Hm, varv, seedv) ==
    LET oc == obs_columns(Len(tv), period)
    IN  [tobs |-> [k \in 1..Len(oc) |-> tv[oc[k]]],
         y    |-> [k \in 1..Len(oc) |->
                     LET hx == apply_H(Hm, X[oc[k]])
                     IN  [r \in 1..Len(Hm) |-> hx[r] + obs_error(seedv, varv, r, k)]],
         R    |-> [r \in 1..Len(Hm) |-> [c \in 1..Len(Hm) |-> IF r = c THEN varv ELSE 0]]]

\* ------------------------------------------------------------ the notebook
VARIABLES
    pc,             \* the position in Program of the next statement; 0 after an error
    defined,        \* the names bound in the kernel's namespace
    raised,         \* the exceptions raised: [exc, name]
    plots,          \* the plot calls made so far
    n, F, deltat, tf, t, x0, discard, xtrue,
    n_sample, sample_t0, lin_t, prop_sample,
    times, var1D, vars2D,
    Delta_x, lin_error, NLdiff, TLdiff,
    lag, max_var, sample_size, xB, x_sample, B, Bcorr, mycmap, vs,
    obsgrid, period_obs, var_obs, seed, footprint, p, H, tobs, y, R

book == <<pc, defined, raised>>
cell_96917134 == <<n, F, deltat, tf, t, x0, discard, xtrue>>
cell_c31f4c6c == <<n_sample, sample_t0, lin_t, prop_sample>>
cell_bea86de0 == <<times, var1D, vars2D>>
cell_94ea489a == <<Delta_x, lin_error, NLdiff, TLdiff>>
cell_3f374fbc == <<lag, max_var, sample_size, xB, x_sample, B, Bcorr, mycmap, vs>>
cell_eefe6fc8 == <<obsgrid, period_obs, var_obs, seed, footprint, p, H, tobs, y, R>>
vars == <<book, plots, cell_96917134, cell_c31f4c6c, cell_bea86de0, cell_94ea489a,
          cell_3f374fbc, cell_eefe6fc8>>

\* mutant: the linearisation-error cell placed above the cell that binds lin_t
CellOrder_LinErrFirst ==
    <<"459fcd0c", "9e670a8a", "96917134", "94ea489a", "c31f4c6c", "bea86de0",
      "821c2f22", "3f374fbc", "d9f16454", "eefe6fc8", "c5630535">>

\* the cells of the notebook, top to bottom
CellOrder ==
    <<"459fcd0c", "9e670a8a", "96917134", "c31f4c6c", "bea86de0", "821c2f22",
      "94ea489a", "3f374fbc", "d9f16454", "eefe6fc8", "c5630535">>

\* the statements of a code cell, in order
CellBody(cell) ==
    CASE cell = "459fcd0c" -> <<"clone">>
      [] cell = "9e670a8a" -> <<"imports">>
      [] cell = "96917134" -> <<"params", "t", "x0", "discard", "xtrue", "plotL96">>
      [] cell = "c31f4c6c" -> <<"n_sample", "sample_t0", "lin_t", "prop_sample">>
      [] cell = "bea86de0" -> <<"times", "plotUniDensities">>
      [] cell = "821c2f22" -> <<"vars2D", "plotMultiDensities">>
      [] cell = "94ea489a" -> <<"Delta_x", "compute_lin_error", "plotL96_Linerr">>
      [] cell = "3f374fbc" -> <<"lag", "sample_size", "xB", "getBcanadian", "vs",
                                "tileplotB">>
      [] cell = "d9f16454" -> <<>>
      [] cell = "eefe6fc8" -> <<"imports_plots", "obs_params", "createH", "plotH",
                                "gen_obs", "plotL96obs">>
      [] cell = "c5630535" -> <<>>

RECURSIVE Flatten(_, _)
Flatten(order, k) ==
    IF k > Len(order) THEN <<>> ELSE CellBody(order[k]) \o Flatten(order, k + 1)

\* Run All: the statements in execution order
Program == Flatten(CellOrder, 1)

PlotImports == {"plotL96", "plotL96obs", "plotL96_Linerr", "plotH", "tileplotB"}

\* the names a statement reads
Reads(s) ==
    CASE s = "t"                  -> {"np", "tf", "deltat"}
      [] s = "x0"                 -> {"np", "n"}
      [] s = "xtrue"              -> {"lorenz96", "x0", "tf", "deltat", "discard", "F"}
      [] s = "plotL96"            -> {"plotL96", "t", "xtrue", "n"}
      [] s = "sample_t0"          -> {"np", "n", "n_sample"}
      [] s = "lin_t"              -> {"deltat"}
      [] s = "prop_sample"        -> {"np", "n", "lin_t", "deltat", "n_sample", "lorenz96",
                                      "sample_t0", "F"}
      [] s = "plotUniDensities"   -> {"plotUniDensities", "times", "prop_sample", "var1D"}
      [] s = "vars2D"             -> {"var1D"}
      [] s = "plotMultiDensities" -> {"plotMultiDensities", "times", "prop_sample", "vars2D"}
      [] s = "Delta_x"            -> {"np", "n"}
      [] s = "compute_lin_error"  -> {"compute_lin_error", "Delta_x", "xtrue", "F", "lin_t",
                                      "deltat"}
      [] s = "plotL96_Linerr"     -> {"plotL96_Linerr", "lin_error", "NLdiff", "TLdiff"}
      [] s = "lag"                -> {"deltat"}
      [] s = "xB"                 -> {"lorenz96", "x0", "sample_size", "deltat", "discard",
                                      "F"}
      [] s = "getBcanadian"       -> {"getBcanadian", "xB", "lag", "max_var", "sample_size"}
      [] s = "vs"                 -> {"np", "B"}
      [] s = "tileplotB"          -> {"tileplotB", "B", "mycmap", "vs"}
      [] s = "createH"            -> {"createH", "obsgrid", "n", "footprint"}
      [] s = "plotH"              -> {"plotH", "H"}
      [] s = "gen_obs"            -> {"gen_obs", "t", "xtrue", "period_obs", "H", "var_obs",
                                      "seed"}
      [] s = "plotL96obs"         -> {"plotL96obs", "tobs", "y", "p"}
      [] OTHER                    -> {}

\* the names a statement binds
Writes(s) ==
    CASE s = "imports"           -> {"np", "lorenz96", "createH", "gen_obs", "getBcanadian",
                                     "plotUniDensities", "plotMultiDensities",
                                     "compute_lin_error"} \cup PlotImports
      [] s = "params"            -> {"n", "F", "deltat", "tf"}
      [] s = "t"                 -> {"t"}
      [] s = "x0"                -> {"x0"}
      [] s = "discard"           -> {"discard"}
      [] s = "xtrue"             -> {"xtrue"}
      [] s = "n_sample"          -> {"n_sample"}
      [] s = "sample_t0"         -> {"sample_t0"}
      [] s = "lin_t"             -> {"lin_t"}
      [] s = "prop_sample"       -> {"prop_sample"}
      [] s = "times"             -> {"times", "var1D"}
      [] s = "vars2D"            -> {"vars2D"}
      [] s = "Delta_x"           -> {"Delta_x"}
      [] s = "compute_lin_error" -> {"lin_error", "NLdiff", "TLdiff"}
      [] s = "lag"               -> {"lag"}
      [] s = "sample_size"       -> {"max_var", "sample_size"}
      [] s = "xB"                -> {"xB"}
      [] s = "getBcanadian"      -> {"B", "Bcorr"}
      [] s = "vs"                -> {"mycmap", "vs"}
      [] s = "imports_plots"     -> PlotImports
      [] s = "obs_params"        -> {"obsgrid", "period_obs", "var_obs", "seed", "footprint"}
      [] s = "createH"           -> {"p", "H"}
      [] s = "gen_obs"           -> {"tobs", "y", "R"}
      [] OTHER                   -> {}

\* statement s is the next one to run
At(s) == pc \in 1..Len(Program) /\ Program[pc] = s

\* every name s reads is bound: s runs; otherwise it raises NameError
Ok(s) == Reads(s) \subseteq defined

\* the kernel's bookkeeping of running s, where the statement itself raises
\* ValueError when fails: an exception stops the run and binds nothing
Run(s, fails) ==
    /\ pc' = IF Ok(s) /\ ~fails THEN pc + 1 ELSE 0
    /\ defined' = IF Ok(s) /\ ~fails THEN defined \cup Writes(s) ELSE defined
    /\ raised' = IF ~Ok(s)
                 THEN {[exc |-> "NameError", name |-> v] : v \in Reads(s) \ defined}
                 ELSE IF fails THEN {[exc |-> "ValueError", name |-> s]}
                 ELSE raised

Exec(s) == Run(s, FALSE)

\* a plot call draws; it binds nothing
Plot(s) ==
    plots' = IF Ok(s) THEN Append(plots, [fn |-> s, args |-> Reads(s) \ {s}]) ELSE plots

Init ==
    /\ pc = 1 /\ defined = {} /\ raised = {} /\ plots = <<>>
    /\ n = 0 /\ F = 0 /\ deltat = 0 /\ tf = 0 /\ t = <<>> /\ x0 = <<>>
    /\ discard = 0 /\ xtrue = <<>>
    /\ n_sample = 0 /\ sample_t0 = <<>> /\ lin_t = 0 /\ prop_sample = <<>>
    /\ times = <<>> /\ var1D = 0 /\ vars2D = <<>>
    /\ Delta_x = <<>> /\ lin_error = <<>> /\ NLdiff = <<>> /\ TLdiff = <<>>
    /\ lag = 0 /\ max_var = "" /\ sample_size = 0 /\ xB = <<>> /\ x_sample = <<>>
    /\ B = <<>> /\ Bcorr = <<>> /\ mycmap = "" /\ vs = <<>>
    /\ obsgrid = "" /\ period_obs = 0 /\ var_obs = 0 /\ seed = 0 /\ footprint = 0
    /\ p = 0 /\ H = <<>> /\ tobs = <<>> /\ y = <<>> /\ R = <<>>

\* ---- cell 459fcd0c: !git clone ...; %cd darc-training-2025
Stmt_clone ==
    /\ At("clone") /\ Exec("clone")
    /\ UNCHANGED <<plots, cell_96917134, cell_c31f4c6c, cell_bea86de0, cell_94ea489a,
                   cell_3f374fbc, cell_eefe6fc8>>

\* ---- cell 9e670a8a: import numpy as np; from tools... import ...
Stmt_imports ==
    /\ At("imports") /\ Exec("imports")
    /\ UNCHANGED <<plots, cell_96917134, cell_c31f4c6c, cell_bea86de0, cell_94ea489a,
                   cell_3f374fbc, cell_eefe6fc8>>

\* ---- cell 96917134
\* n = 12; F = 8.0; deltat = 0.025; tf = 5.0
Stmt_params ==
    /\ At("params") /\ Exec("params")
    /\ \E h \in (MaxHalfN - 1)..MaxHalfN : n' = 2 * h
    /\ F' = F_VALUE
    /\ deltat' = DELTAT
    /\ \E k \in (MaxTfSteps - 2)..MaxTfSteps : tf' = k * DELTAT
    /\ UNCHANGED <<plots, t, x0, discard, xtrue, cell_c31f4c6c, cell_bea86de0,
                   cell_94ea489a, cell_3f374fbc, cell_eefe6fc8>>

\* mutant: the half step left out of the stop value, np.arange(0.0, tf, deltat)
time_array_open(tfv, dt) == arange(0, tfv, dt)

\* t = np.arange(0.0, tf+deltat/2, deltat)
time_array(tfv, dt) == arange(0, tfv + dt \div 2, dt)

Stmt_t ==
    /\ At("t") /\ Exec("t")
    /\ t' = IF Ok("t") THEN time_array(tf, deltat) ELSE t
    /\ UNCHANGED <<plots, n, F, deltat, tf, x0, discard, xtrue, cell_c31f4c6c,
                   cell_bea86de0, cell_94ea489a, cell_3f374fbc, cell_eefe6fc8>>

\* x0 = np.repeat(10.0, n); x0[1] += 0.05
initial_state(nv) ==
    [repeat(X0_VALUE * Scale, nv) EXCEPT ![2] = @ + (5 * Scale) \div 100]

Stmt_x0 ==
    /\ At("x0") /\ Exec("x0")
    /\ x0' = IF Ok("x0") THEN initial_state(n) ELSE x0
    /\ UNCHANGED <<plots, n, F, deltat, tf, t, discard, xtrue, cell_c31f4c6c,
                   cell_bea86de0, cell_94ea489a, cell_3f374fbc, cell_eefe6fc8>>

\* discard = 150
Stmt_discard ==
    /\ At("discard") /\ Exec("discard")
    /\ \E k \in (MaxDiscard - 1)..MaxDiscard : discard' = k
    /\ UNCHANGED <<plots, n, F, deltat, tf, t, x0, xtrue, cell_c31f4c6c,
                   cell_bea86de0, cell_94ea489a, cell_3f374fbc, cell_eefe6fc8>>

\* xtrue = lorenz96(x0, tf, deltat, discard, F)
Stmt_xtrue ==
    /\ At("xtrue") /\ Exec("xtrue")
    /\ xtrue' = IF Ok("xtrue") THEN lorenz96(x0, tf, deltat, discard, F) ELSE xtrue
    /\ UNCHANGED <<plots, n, F, deltat, tf, t, x0, discard, cell_c31f4c6c,
                   cell_bea86de0, cell_94ea489a, cell_3f374fbc, cell_eefe6fc8>>

\* plotL96(t, xtrue, n, 'Lorenz 96 system')
Stmt_plotL96 ==
    /\ At("plotL96") /\ Exec("plotL96") /\ Plot("plotL96")
    /\ UNCHANGED <<cell_96917134, cell_c31f4c6c, cell_bea86de0, cell_94ea489a,
                   cell_3f374fbc, cell_eefe6fc8>>

\* ---- cell c31f4c6c
\* n_sample = 5000
Stmt_n_sample ==
    /\ At("n_sample") /\ Exec("n_sample")
    /\ n_sample' = MaxNSample
    /\ UNCHANGED <<plots, sample_t0, lin_t, prop_sample, cell_96917134, cell_bea86de0,
                   cell_94ea489a, cell_3f374fbc, cell_eefe6fc8>>

\* draw r of np.random.multivariate_normal(np.zeros(n), np.eye(n), n_sample).T:
\* sample_t0[i] is the i-th sample
normal_draw(r, nv, ns) ==
    [i \in 1..ns |-> [j \in 1..nv |-> (((r + 2 * i + j) % 5) - 2) * (Scale \div 2)]]

Stmt_sample_t0 ==
    /\ At("sample_t0") /\ Exec("sample_t0")
    /\ \E r \in 0..1 :
          sample_t0' = IF Ok("sample_t0") THEN normal_draw(r, n, n_sample) ELSE sample_t0
    /\ UNCHANGED <<plots, n_sample, lin_t, prop_sample, cell_96917134, cell_bea86de0,
                   cell_94ea489a, cell_3f374fbc, cell_eefe6fc8>>

\* lin_t = 100*deltat
Stmt_lin_t ==
    /\ At("lin_t") /\ Exec("lin_t")
    /\ \E k \in (MaxLinSteps - 1)..MaxLinSteps : lin_t' = IF Ok("lin_t") THEN k * deltat ELSE lin_t
    /\ UNCHANGED <<plots, n_sample, sample_t0, prop_sample, cell_96917134, cell_bea86de0,
                   cell_94ea489a, cell_3f374fbc, cell_eefe6fc8>>

\* prop_sample = np.zeros((n,int(lin_t/deltat)+1,n_sample))
\* for i in range(n_sample): prop_sample[:,:,i] = lorenz96(sample_t0[:,i], lin_t, deltat, 0, F)
\* prop_sample[i] is the run of the i-th sample
propagate(samples, lint, dt, Fv) ==
    [i \in 1..Len(samples) |-> lorenz96(samples[i], lint, dt, 0, Fv)]

\* the slice assignment raises ValueError unless the run has the allocated columns
shape_fits(runs, lint, dt) ==
    \A i \in 1..Len(runs) : Cols(runs[i]) = PyInt(lint, dt) + 1

Stmt_prop_sample ==
    /\ At("prop_sample")
    /\ LET runs == propagate(sample_t0, lin_t, deltat, F)
           fits == Ok("prop_sample") => shape_fits(runs, lin_t, deltat)
       IN  /\ Run("prop_sample", ~fits)
           /\ prop_sample' = IF Ok("prop_sample") /\ fits THEN runs ELSE prop_sample
    /\ UNCHANGED <<plots, n_sample, sample_t0, lin_t, cell_96917134, cell_bea86de0,
                   cell_94ea489a, cell_3f374fbc, cell_eefe6fc8>>

\* ---- cell bea86de0
\* times = [20,30,40,50,60,70]; var1D = 5 (the time steps scaled to the run)
Stmt_times ==
    /\ At("times") /\ Exec("times")
    /\ times' = <<1>>
    /\ var1D' = VAR1D
    /\ UNCHANGED <<plots, vars2D, cell_96917134, cell_c31f4c6c, cell_94ea489a,
                   cell_3f374fbc, cell_eefe6fc8>>

\* plotUniDensities(times,prop_sample,var1D)
Stmt_plotUniDensities ==
    /\ At("plotUniDensities") /\ Exec("plotUniDensities") /\ Plot("plotUniDensities")
    /\ UNCHANGED <<cell_96917134, cell_c31f4c6c, cell_bea86de0, cell_94ea489a,
                   cell_3f374fbc, cell_eefe6fc8>>

\* ---- cell 821c2f22
\* vars2D = [var1D,6]
Stmt_vars2D ==
    /\ At("vars2D") /\ Exec("vars2D")
    /\ vars2D' = IF Ok("vars2D") THEN <<var1D, 6>> ELSE vars2D
    /\ UNCHANGED <<plots, times, var1D, cell_96917134, cell_c31f4c6c, cell_94ea489a,
                   cell_3f374fbc, cell_eefe6fc8>>

\* plotMultiDensities(times,prop_sample,vars2D)
Stmt_plotMultiDensities ==
    /\ At("plotMultiDensities") /\ Exec("plotMultiDensities") /\ Plot("plotMultiDensities")
    /\ UNCHANGED <<cell_96917134, cell_c31f4c6c, cell_bea86de0, cell_94ea489a,
                   cell_3f374fbc, cell_eefe6fc8>>

\* ---- cell 94ea489a
\* Delta_x = np.ones(n,)
Stmt_Delta_x ==
    /\ At("Delta_x") /\ Exec("Delta_x")
    /\ Delta_x' = IF Ok("Delta_x") THEN repeat(Scale, n) ELSE Delta_x
    /\ UNCHANGED <<plots, lin_error, NLdiff, TLdiff, cell_96917134, cell_c31f4c6c,
                   cell_bea86de0, cell_3f374fbc, cell_eefe6fc8>>

\* mutant: the second column, xtrue[:,1]
base_state_next(X) == X[2]

\* the base state passed to compute_lin_error: xtrue[:,0]
base_state(X) == X[1]

\* lin_error,NLdiff,TLdiff = compute_lin_error(Delta_x,xtrue[:,0], F, lin_t, deltat)
Stmt_compute_lin_error ==
    /\ At("compute_lin_error") /\ Exec("compute_lin_error")
    /\ LET ok  == Ok("compute_lin_error")
           out == compute_lin_error(Delta_x, base_state(xtrue), F, lin_t, deltat)
       IN  /\ lin_error' = IF ok THEN out.lin_error ELSE lin_error
           /\ NLdiff' = IF ok THEN out.NLdiff ELSE NLdiff
           /\ TLdiff' = IF ok THEN out.TLdiff ELSE TLdiff
    /\ UNCHANGED <<plots, Delta_x, cell_96917134, cell_c31f4c6c, cell_bea86de0,
                   cell_3f374fbc, cell_eefe6fc8>>

\* plotL96_Linerr(lin_error,NLdiff,TLdiff)
Stmt_plotL96_Linerr ==
    /\ At("plotL96_Linerr") /\ Exec("plotL96_Linerr") /\ Plot("plotL96_Linerr")
    /\ UNCHANGED <<cell_96917134, cell_c31f4c6c, cell_bea86de0, cell_94ea489a,
                   cell_3f374fbc, cell_eefe6fc8>>

\* ---- cell 3f374fbc
\* mutant: the lag one step too long
lag_steps_plus(dt) == PyInt(LAG_T, dt) + 1

\* lag = int(0.1/deltat)
lag_steps(dt) == PyInt(LAG_T, dt)

Stmt_lag ==
    /\ At("lag") /\ Exec("lag")
    /\ lag' = IF Ok("lag") THEN lag_steps(deltat) ELSE lag
    /\ UNCHANGED <<plots, max_var, sample_size, xB, x_sample, B, Bcorr, mycmap, vs,
                   cell_96917134, cell_c31f4c6c, cell_bea86de0, cell_94ea489a,
                   cell_eefe6fc8>>

\* max_var = None; sample_size = 10000
Stmt_sample_size ==
    /\ At("sample_size") /\ Exec("sample_size")
    /\ max_var' = "None"
    /\ \E k \in (MaxSampleSize - 1)..MaxSampleSize : sample_size' = k
    /\ UNCHANGED <<plots, lag, xB, x_sample, B, Bcorr, mycmap, vs, cell_96917134,
                   cell_c31f4c6c, cell_bea86de0, cell_94ea489a, cell_eefe6fc8>>

\* xB = lorenz96(x0, sample_size*deltat, deltat, discard, F)
forecast_run(x0v, ssize, dt, disc, Fv) == lorenz96(x0v, ssize * dt, dt, disc, Fv)

Stmt_xB ==
    /\ At("xB") /\ Exec("xB")
    /\ xB' = IF Ok("xB") THEN forecast_run(x0, sample_size, deltat, discard, F) ELSE xB
    /\ UNCHANGED <<plots, lag, max_var, sample_size, x_sample, B, Bcorr, mycmap, vs,
                   cell_96917134, cell_c31f4c6c, cell_bea86de0, cell_94ea489a,
                   cell_eefe6fc8>>

\* B,Bcorr = getBcanadian(xB,lag,max_var,sample_size)
\* x_sample is getBcanadian's array of lagged differences
Stmt_getBcanadian ==
    /\ At("getBcanadian") /\ Exec("getBcanadian")
    /\ LET ok  == Ok("getBcanadian")
           out == getBcanadian(xB, lag, sample_size)
       IN  /\ x_sample' = IF ok THEN out.x_sample ELSE x_sample
           /\ B' = IF ok THEN out.B ELSE B
           /\ Bcorr' = IF ok THEN out.Bcorr ELSE Bcorr
    /\ UNCHANGED <<plots, lag, max_var, sample_size, xB, mycmap, vs, cell_96917134,
                   cell_c31f4c6c, cell_bea86de0, cell_94ea489a, cell_eefe6fc8>>

RECURSIVE amax_diag(_, _)
\* np.amax(np.diag(B)) over the rows k..
amax_diag(Bm, k) ==
    IF k = Len(Bm) THEN Bm[k][k]
    ELSE LET rest == amax_diag(Bm, k + 1) IN IF Bm[k][k] > rest THEN Bm[k][k] ELSE rest

\* mycmap = 'BrBG'; vs = [-np.amax(np.diag(B)),np.amax(np.diag(B))]
Stmt_vs ==
    /\ At("vs") /\ Exec("vs")
    /\ mycmap' = IF Ok("vs") THEN "BrBG" ELSE mycmap
    /\ vs' = IF Ok("vs") THEN <<-amax_diag(B, 1), amax_diag(B, 1)>> ELSE vs
    /\ UNCHANGED <<plots, lag, max_var, sample_size, xB, x_sample, B, Bcorr,
                   cell_96917134, cell_c31f4c6c, cell_bea86de0, cell_94ea489a,
                   cell_eefe6fc8>>

\* tileplotB(B,mycmap,vs)
Stmt_tileplotB ==
    /\ At("tileplotB") /\ Exec("tileplotB") /\ Plot("tileplotB")
    /\ UNCHANGED <<cell_96917134, cell_c31f4c6c, cell_bea86de0, cell_94ea489a,
                   cell_3f374fbc, cell_eefe6fc8>>

\* ---- cell eefe6fc8
\* from tools.plots import plotL96, plotL96obs, plotL96_Linerr, plotH, tileplotB
Stmt_imports_plots ==
    /\ At("imports_plots") /\ Exec("imports_plots")
    /\ UNCHANGED <<plots, cell_96917134, cell_c31f4c6c, cell_bea86de0, cell_94ea489a,
                   cell_3f374fbc, cell_eefe6fc8>>

\* obsgrid = '1010'; period_obs = 2; var_obs = 2; seed = 1; footprint = 3
Stmt_obs_params ==
    /\ At("obs_params") /\ Exec("obs_params")
    /\ \E g \in ObsGrids : obsgrid' = g
    /\ \E k \in 1..MaxPeriodObs : period_obs' = k
    /\ \E v \in {0, VAR_OBS} : var_obs' = v
    /\ seed' = SEED
    /\ footprint' = FOOTPRINT
    /\ UNCHANGED <<plots, p, H, tobs, y, R, cell_96917134, cell_c31f4c6c, cell_bea86de0,
                   cell_94ea489a, cell_3f374fbc>>

\* mutant: n and footprint passed in each other's place
Stmt_createH_swapped ==
    /\ At("createH") /\ Exec("createH")
    /\ LET ok  == Ok("createH")
           out == createH(obsgrid, footprint, n)
       IN  /\ p' = IF ok THEN out.p ELSE p
           /\ H' = IF ok THEN out.H ELSE H
    /\ UNCHANGED <<plots, obsgrid, period_obs, var_obs, seed, footprint, tobs, y, R,
                   cell_96917134, cell_c31f4c6c, cell_bea86de0, cell_94ea489a,
                   cell_3f374fbc>>

\* p, H = createH(obsgrid,n,footprint)
Stmt_createH ==
    /\ At("createH") /\ Exec("createH")
    /\ LET ok  == Ok("createH")
           out == createH(obsgrid, n, footprint)
       IN  /\ p' = IF ok THEN out.p ELSE p
           /\ H' = IF ok THEN out.H ELSE H
    /\ UNCHANGED <<plots, obsgrid, period_obs, var_obs, seed, footprint, tobs, y, R,
                   cell_96917134, cell_c31f4c6c, cell_bea86de0, cell_94ea489a,
                   cell_3f374fbc>>

\* mutant: H = plotH(H), which rebinds H to the call's result, None
Stmt_plotH_rebinds ==
    /\ At("plotH") /\ Exec("plotH") /\ Plot("plotH")
    /\ H' = IF Ok("plotH") THEN <<>> ELSE H
    /\ UNCHANGED <<obsgrid, period_obs, var_obs, seed, footprint, p, tobs, y, R,
                   cell_96917134, cell_c31f4c6c, cell_bea86de0, cell_94ea489a,
                   cell_3f374fbc>>

\* plotH(H): the call has no target, H stays bound to the same matrix
Stmt_plotH ==
    /\ At("plotH") /\ Exec("plotH") /\ Plot("plotH")
    /\ UNCHANGED <<cell_96917134, cell_c31f4c6c, cell_bea86de0, cell_94ea489a,
                   cell_3f374fbc, cell_eefe6fc8>>

\* mutant: the observation period passed one step too long
Stmt_gen_obs_period ==
    /\ At("gen_obs") /\ Exec("gen_obs")
    /\ LET ok  == Ok("gen_obs")
           out == gen_obs(t, xtrue, period_obs + 1, H, var_obs, seed)
       IN  /\ tobs' = IF ok THEN out.tobs ELSE tobs
           /\ y' = IF ok THEN out.y ELSE y
           /\ R' = IF ok THEN out.R ELSE R
    /\ UNCHANGED <<plots, obsgrid, period_obs, var_obs, seed, footprint, p, H,
                   cell_96917134, cell_c31f4c6c, cell_bea86de0, cell_94ea489a,
                   cell_3f374fbc>>

\* mutant: var_obs and seed passed in each other's place
Stmt_gen_obs_swapped ==
    /\ At("gen_obs") /\ Exec("gen_obs")
    /\ LET ok  == Ok("gen_obs")
           out == gen_obs(t, xtrue, period_obs, H, seed, var_obs)
       IN  /\ tobs' = IF ok THEN out.tobs ELSE tobs
           /\ y' = IF ok THEN out.y ELSE y
           /\ R' = IF ok THEN out.R ELSE R
    /\ UNCHANGED <<plots, obsgrid, period_obs, var_obs, seed, footprint, p, H,
                   cell_96917134, cell_c31f4c6c, cell_bea86de0, cell_94ea489a,
                   cell_3f374fbc>>

\* tobs, y, R = gen_obs(t, xtrue, period_obs, H, var_obs, seed)
Stmt_gen_obs ==
    /\ At("gen_obs") /\ Exec("gen_obs")
    /\ LET ok  == Ok("gen_obs")
           out == gen_obs(t, xtrue, period_obs, H, var_obs, seed)
       IN  /\ tobs' = IF ok THEN out.tobs ELSE tobs
           /\ y' = IF ok THEN out.y ELSE y
           /\ R' = IF ok THEN out.R ELSE R
    /\ UNCHANGED <<plots, obsgrid, period_obs, var_obs, seed, footprint, p, H,
                   cell_96917134, cell_c31f4c6c, cell_bea86de0, cell_94ea489a,
                   cell_3f374fbc>>

\* plotL96obs(tobs, y, p, 'L96 observations')
Stmt_plotL96obs ==
    /\ At("plotL96obs") /\ Exec("plotL96obs") /\ Plot("plotL96obs")
    /\ UNCHANGED <<cell_96917134, cell_c31f4c6c, cell_bea86de0, cell_94ea489a,
                   cell_3f374fbc, cell_eefe6fc8>>

Next ==
    \/ Stmt_clone \/ Stmt_imports
    \/ Stmt_params \/ Stmt_t \/ Stmt_x0 \/ Stmt_discard \/ Stmt_xtrue \/ Stmt_plotL96
    \/ Stmt_n_sample \/ Stmt_sample_t0 \/ Stmt_lin_t \/ Stmt_prop_sample
    \/ Stmt_times \/ Stmt_plotUniDensities \/ Stmt_vars2D \/ Stmt_plotMultiDensities
    \/ Stmt_Delta_x \/ Stmt_compute_lin_error \/ Stmt_plotL96_Linerr
    \/ Stmt_lag \/ Stmt_sample_size \/ Stmt_xB \/ Stmt_getBcanadian \/ Stmt_vs
    \/ Stmt_tileplotB
    \/ Stmt_imports_plots \/ Stmt_obs_params \/ Stmt_createH \/ Stmt_plotH
    \/ Stmt_gen_obs \/ Stmt_plotL96obs

Spec == Init /\ [][Next]_vars

\* ------------------------------------------------------------ properties
Bound(v) == v \in defined

Done == pc = Len(Program) + 1

\* the column of the time array t holding the time tm (0 if none)
ColumnOf(tm) == IF \E c \in 1..Len(t) : t[c] = tm
                THEN CHOOSE c \in 1..Len(t) : t[c] = tm ELSE 0

\* C1: run top to bottom, no statement reads a name before it is bound (no
\* NameError), the stages come in the order truth run, sample propagation and
\* linearisation error, covariance B, observations y, and every plot call is made
\* with all the values it plots already computed.
C1_RunOrder ==
    /\ {e \in raised : e.exc = "NameError"} = {}
    /\ pc # 0
    /\ Bound("prop_sample") => Bound("xtrue")
    /\ Bound("lin_error") => Bound("prop_sample") /\ Bound("xtrue")
    /\ Bound("B") => Bound("lin_error") /\ Bound("prop_sample")
    /\ Bound("y") => Bound("B")
    /\ \A k \in 1..Len(plots) : plots[k].args \subseteq defined
    /\ \A k \in 1..Len(plots) :
          /\ plots[k].fn = "plotL96" => xtrue # <<>> /\ t # <<>>
          /\ plots[k].fn = "plotUniDensities" => prop_sample # <<>>
          /\ plots[k].fn = "plotL96_Linerr" => lin_error # <<>>
          /\ plots[k].fn = "tileplotB" => B # <<>> /\ vs # <<>>
          /\ plots[k].fn = "plotH" => H # <<>>
          /\ plots[k].fn = "plotL96obs" => y # <<>> /\ tobs # <<>>

C1_Witness ==
    Done /\ Len(plots) = 7 /\ Bound("xtrue") /\ Bound("prop_sample") /\ Bound("B")
         /\ Bound("y") /\ raised = {}

C3_HUnchanged == [][Bound("H") => H' = H]_vars

C3_Witness ==
    Done /\ Bound("y") /\ Len(tobs) >= 2 /\ H = createH(obsgrid, n, footprint).H
         /\ Len(H) = p

====
